---- MODULE Spec2Model ----
(***************************************************************************)
(* Model of the SQL query service of src/sql_server: the request handler   *)
(* execute_query with its access gate, admission policy, real-time path    *)
(* (Redis cache + database executor) and scheduled path (task queue).      *)
(*                                                                         *)
(* Requests are coroutines on one asyncio event loop: a request runs       *)
(* without interruption between two awaits, and the only awaits are the    *)
(* two cache_query calls of handle_real_time_query (redis.get, redis.set). *)
(* Each await is split in two steps: the Redis server performs the command *)
(* (RedisGet, RedisSet), and later the coroutine resumes.                  *)
(*                                                                         *)
(* Spec is the service. CacheSpec is cache_query called on its own against *)
(* a Redis store that keeps time. UnitSpec is validate_saas_tokens and the *)
(* signal extraction called on their own.                                  *)
(***************************************************************************)
EXTENDS Integers, Sequences, FiniteSets, TLC

(***************************** bounds **************************************)
\* number of requests submitted to execute_query over a run
MaxReq == 2
\* size of the identifier space uuid4 draws from (at least MaxReq, so that a
\* fresh identifier always exists)
NumUuids == 3

(***************************** texts ***************************************)
\* A text is a sequence of characters.
UPPER == <<"A","B","C","D","E","F","G","H","I","J","K","L","M",
           "N","O","P","Q","R","S","T","U","V","W","X","Y","Z">>
LOWER == <<"a","b","c","d","e","f","g","h","i","j","k","l","m",
           "n","o","p","q","r","s","t","u","v","w","x","y","z">>

\* str.lower() on one character
lower_char(c) ==
    IF \E i \in 1..Len(UPPER) : UPPER[i] = c
    THEN LOWER[CHOOSE i \in 1..Len(UPPER) : UPPER[i] = c]
    ELSE c

\* str.lower()
lower(s) == [i \in 1..Len(s) |-> lower_char(s[i])]

\* the Python test  sub in s
Contains(sub, s) ==
    \E i \in 0..(Len(s) - Len(sub)) : SubSeq(s, i + 1, i + Len(sub)) = sub

s_where == <<"w","h","e","r","e">>
s_id == <<"i","d">>
s_join == <<"j","o","i","n">>
s_groupby == <<"g","r","o","u","p"," ","b","y">>
s_sum == <<"s","u","m","(">>
s_insert == <<"i","n","s","e","r","t">>
s_select == <<"s","e","l","e","c","t">>
s_highly_confidential ==
    <<"h","i","g","h","l","y","_","c","o","n","f","i","d","e","n","t","i","a","l">>

\* The query texts requests are drawn from, by name.
Text ==
    [ QSel  |-> <<"s","e","l","e","c","t"," ","a"," ","w","h","e","r","e"," ","i","d","=","1">>,
      QSelU |-> <<"S","E","L","E","C","T"," ","a"," ","W","H","E","R","E"," ","i","d","=","1">>,
      QJoin |-> <<"S","E","L","E","C","T"," ","a"," ","J","O","I","N"," ","b"," ",
                  "W","H","E","R","E"," ","i","d","=","1">>,
      QConf |-> <<"s","e","l","e","c","t"," ","h","i","g","h","l","y","_","c","o","n","f",
                  "i","d","e","n","t","i","a","l"," ","w","h","e","r","e"," ","a","=","1">>,
      QUpd  |-> <<"u","p","d","a","t","e"," ","t"," ","w","h","e","r","e"," ","i","d","=","1">>,
      QSum  |-> <<"s","e","l","e","c","t"," ","s","u","m","(","a",")"," ",
                  "w","h","e","r","e"," ","i","d","=","1">>,
      QGrp  |-> <<"s","e","l","e","c","t"," ","a"," ","w","h","e","r","e"," ","i","d","=","1",
                  " ","g","r","o","u","p"," ","b","y"," ","a">>,
      QIns  |-> <<"i","n","s","e","r","t"," ","t"," ","w","h","e","r","e"," ","i","d","=","1">>,
      QNoIdx |-> <<"s","e","l","e","c","t"," ","a">>,
      QColl |-> <<"s","e","l","e","c","t"," ","b","m","x","x"," ",
                  "w","h","e","r","e"," ","i","d","=","1">> ]

\* every query text of the model
AllQueries == DOMAIN Text
\* the query texts submitted by the requests of a run
Queries == {"QSel", "QJoin", "QConf"}

(***************************** query signals *******************************)
check_indexed_filters(sql_query) ==
    IF Contains(s_where, lower(sql_query)) /\ Contains(s_id, lower(sql_query))
    THEN TRUE
    ELSE FALSE

get_db_query_slo(sql_query) ==
    IF Contains(s_join, lower(sql_query)) THEN 10
    ELSE IF Contains(s_groupby, lower(sql_query)) \/ Contains(s_sum, lower(sql_query)) THEN 8
    ELSE 3

identify_query_type(sql_query) ==
    IF Contains(s_join, lower(sql_query)) THEN "join"
    ELSE IF Contains(s_groupby, lower(sql_query)) \/ Contains(s_sum, lower(sql_query))
         THEN "aggregation"
    ELSE IF Contains(s_insert, lower(sql_query)) THEN "insert"
    ELSE IF Contains(s_select, lower(sql_query)) THEN "projection"
    ELSE "unknown"

\* threshold of the SLO test, in seconds
SLO_THRESHOLD == 5

\* the admission test with the threshold excluded
admit_below_threshold(indexed, query_type, slo) ==
    IF ~indexed THEN FALSE
    ELSE IF query_type \in {"join", "aggregation", "insert"} THEN FALSE
    ELSE IF slo >= SLO_THRESHOLD THEN FALSE
    ELSE TRUE

\* The three tests of is_query_eligible_for_realtime, on the signals of a query.
admit(indexed, query_type, slo) ==
    IF ~indexed THEN FALSE
    ELSE IF query_type \in {"join", "aggregation", "insert"} THEN FALSE
    ELSE IF slo > SLO_THRESHOLD THEN FALSE
    ELSE TRUE

\* the admission test that admits every query
is_query_eligible_for_realtime_always(sql_query) == TRUE

is_query_eligible_for_realtime(sql_query) ==
    admit(check_indexed_filters(sql_query),
          identify_query_type(sql_query),
          get_db_query_slo(sql_query))

(***************************** Python values *******************************)
\* An optional value (None or a value) is a sequence of length 0 or 1.
None == <<>>
Some(v) == <<v>>

\* dict.get(key): None when the key is absent
dict_get(d, k) == IF k \in DOMAIN d THEN Some(d[k]) ELSE None

\* dict.get(key, default)
dict_get_default(d, k, default) == IF k \in DOMAIN d THEN d[k] ELSE default

EmptyDict == [k \in {} |-> ""]

\* truth value of an optional string: None and "" are false
str_truthy(o) == o # None /\ o[1] # ""

\* truth value of a list
list_truthy(l) == Len(l) > 0

(***************************** access gate *********************************)
validate_entitlements(sql_query, user_context) ==
    IF Contains(s_highly_confidential, lower(sql_query))
       /\ "Admin" \notin user_context["roles"]
    THEN FALSE
    ELSE TRUE

validate_saas_tokens(enterprise_context) ==
    LET tokens == dict_get_default(enterprise_context, "Access_tokens", EmptyDict)
    IN  IF ~str_truthy(dict_get(tokens, "Salesforce"))
           \/ ~str_truthy(dict_get(tokens, "Zendesk"))
        THEN FALSE
        ELSE TRUE

(***************************** request inputs ******************************)
UserContexts == { "roles" :> {}, "roles" :> {"Admin"} }

EnterpriseContexts ==
    { "Access_tokens" :> ("Salesforce" :> "tok_sf" @@ "Zendesk" :> "tok_zd"),
      "Access_tokens" :> ("Salesforce" :> "tok_sf" @@ "Zendesk" :> "") }

\* the preferences the requests of a run are drawn from
ExecutionPrefs == { "real_time" :> TRUE, "real_time" :> FALSE }

(***************************** database rows *******************************)
\* Values of a result column: a string is JSON-serializable, a datetime is not.
DATETIME == "datetime.datetime(2024, 1, 1)"

\* The row lists db_session.execute(...).fetchall() can give.
RowLists == { <<>>, <<[name |-> "alice"]>>, <<[name |-> DATETIME]>> }

\* The messages of the SQLAlchemyError the executor can raise.
DbErrors == { "connection refused" }

\* json.dumps raises TypeError on a value it cannot encode
json_serializable(rows) == \A i \in 1..Len(rows) : rows[i].name # DATETIME

\* json.dumps that encodes every row list as the empty list
json_dumps_empty(rows) == [json |-> <<>>]

\* json.dumps: the encoded text (defined when json_serializable)
json_dumps(rows) == [json |-> rows]

\* json.loads
json_loads(payload) == payload.json

(***************************** cache keys **********************************)
ALPHABET == <<" ","(",")","=","_","1">> \o LOWER \o UPPER

ord(c) == CHOOSE i \in 1..Len(ALPHABET) : ALPHABET[i] = c

\* width of the hash, as a modulus: hash(query) is an integer of fixed width
\* (64 bits in CPython), here of 16 bits, so that two of the texts share a hash
\* (QSel and QColl)
HashMod == 65536

RECURSIVE hash_from(_, _, _)
hash_from(s, i, h) ==
    IF i > Len(s) THEN h ELSE hash_from(s, i + 1, (h * 31 + ord(s[i])) % HashMod)

\* hash(query)
hash(s) == hash_from(s, 1, 7)

\* key = f"sql_cache:{hash(query)}"
cache_key(sql_query) == <<"sql_cache:", hash(sql_query)>>

KeyOf == [q \in AllQueries |-> cache_key(Text[q])]
Keys == {KeyOf[q] : q \in AllQueries}

(***************************** state ***************************************)
VARIABLES
    req,          \* the requests in flight: position, inputs and locals of each
    cache,        \* the Redis store: key -> None or the stored text
    task_queue,   \* the module-level list task_queue
    uuids,        \* the identifiers uuid4 has generated
    submitted,    \* the number of calls of execute_query so far
    returned,     \* the request that returned in the last step, with its response
    status_call,  \* the call of get_task_status made by the last step, if it was one
    http_exception_str,  \* whether the installed HTTPException defines __str__
    redis_store,  \* cache_query on its own: the Redis store, entries with their expiry
    now,          \* cache_query on its own: the time, in seconds
    cache_call,   \* cache_query on its own: the last call and what it returned
    unit_calls    \* the checks and the signal extraction on their own: the calls made

\* the state of the service, and the state of cache_query taken on its own
service_vars == <<req, cache, task_queue, uuids, submitted, returned, status_call,
                 http_exception_str>>
cache_unit_vars == <<redis_store, now, cache_call>>
vars == <<req, cache, task_queue, uuids, submitted, returned, status_call,
         http_exception_str, redis_store, now, cache_call, unit_calls>>

\* the coroutines of execute_query that can be in flight together
Reqs == 1..MaxReq
Uuids == 1..NumUuids

\* position of a request in execute_query / handle_real_time_query
\*   idle        no request in this slot
\*   await_get   suspended in  await redis.get(key),  command not yet served
\*   get_replied redis.get served, coroutine not yet resumed
\*   await_set   suspended in  await redis.set(key, ...),  command not yet served
\*   set_replied redis.set served, coroutine not yet resumed
\*   done        execute_query has returned its response (in returned only)
IdleReq ==
    [ pc |-> "idle", sql_query |-> "", user_context |-> EmptyDict,
      enterprise_context |-> EmptyDict, execution_prefs |-> EmptyDict,
      reply |-> None, rows |-> <<>>, response |-> None, stages |-> <<>> ]

Init ==
    /\ req = [r \in Reqs |-> IdleReq]
    /\ cache = [k \in Keys |-> None]
    /\ task_queue = <<>>
    /\ uuids = {}
    /\ submitted = 0
    /\ returned = None
    /\ status_call = None
    /\ http_exception_str \in BOOLEAN
    /\ redis_store = [k \in Keys |-> None]
    /\ now = 0
    /\ cache_call = None
    /\ unit_calls = <<>>

(***************************** responses ***********************************)
\* str(e) of the exceptions execute_query catches.
\* HTTPException is built with keyword arguments only, so its args are empty:
\* str(e) is "" unless the installed Starlette defines HTTPException.__str__,
\* which gives "<status_code>: <detail>". The source pins no version.
str_HTTPException(status_code, detail) ==
    IF http_exception_str THEN <<ToString(status_code), ": ", detail>> ELSE <<>>
str_Exception(msg) == <<msg>>
str_TypeError_json == <<"Object of type datetime is not JSON serializable">>

\* return {"status": "success", "data": result}: result is the row list of the
\* real-time path (data) or the dict of the scheduled path (job)
SuccessRows(rows) ==
    [ status |-> "success", data |-> rows, job |-> None, error |-> None ]
SuccessJob(result) ==
    [ status |-> "success", data |-> <<>>, job |-> Some(result), error |-> None ]
\* the exception leaves execute_query instead of becoming a response
Failed_unhandled(err) ==
    [ status |-> "unhandled", data |-> <<>>, job |-> None, error |-> Some(err) ]

\* return {"status": "failed", "data": [], "error": str(e)}
Failed(err) ==
    [ status |-> "failed", data |-> <<>>, job |-> None, error |-> Some(err) ]

Finish(rec, response, stages) ==
    [ rec EXCEPT !.pc = "done", !.response = Some(response),
                 !.stages = rec.stages \o stages ]

(***************************** task queue **********************************)
\* enqueue_query_task that stores a fixed identifier in the task
enqueue_query_task_fixed_id(queue, job_id, sql_query, user_context, enterprise_context) ==
    Append(queue,
           [ job_id |-> 1, sql_query |-> sql_query, user_context |-> user_context,
             enterprise_context |-> enterprise_context, status |-> "queued" ])

\* enqueue_query_task that appends the task twice
enqueue_query_task_twice(queue, job_id, sql_query, user_context, enterprise_context) ==
    LET task == [ job_id |-> job_id, sql_query |-> sql_query,
                  user_context |-> user_context,
                  enterprise_context |-> enterprise_context, status |-> "queued" ]
    IN  Append(Append(queue, task), task)

\* enqueue_query_task that keeps the new task only
enqueue_query_task_overwrite(queue, job_id, sql_query, user_context, enterprise_context) ==
    << [ job_id |-> job_id, sql_query |-> sql_query, user_context |-> user_context,
         enterprise_context |-> enterprise_context, status |-> "queued" ] >>

\* enqueue_query_task with job_id the value uuid4 gave: the queue after it
enqueue_query_task(queue, job_id, sql_query, user_context, enterprise_context) ==
    Append(queue,
           [ job_id |-> job_id, sql_query |-> sql_query, user_context |-> user_context,
             enterprise_context |-> enterprise_context, status |-> "queued" ])

JobNotFound == [ error |-> "Job not found" ]

\* get_task_status that falls back to the first task of the queue
get_task_status_default_first(queue, job_id) ==
    IF \E i \in 1..Len(queue) : queue[i].job_id = job_id
    THEN queue[CHOOSE i \in 1..Len(queue) : queue[i].job_id = job_id]
    ELSE IF queue # <<>> THEN queue[1] ELSE [ error |-> "Job not found" ]

\* get_task_status: the first task with that job_id, else the error dict
get_task_status(queue, job_id) ==
    IF \E i \in 1..Len(queue) : queue[i].job_id = job_id
    THEN queue[CHOOSE i \in 1..Len(queue) :
                   /\ queue[i].job_id = job_id
                   /\ \A j \in 1..(i - 1) : queue[j].job_id # job_id]
    ELSE JobNotFound

(***************************** execute_query *******************************)
\* A request and a task hold their query by its name in Text.

\* handle_scheduled_query: the dict it returns for the job
handle_scheduled_query(job_id) == [ job_id |-> job_id, status |-> "queued" ]

\* access_gate without the SaaS-token test
access_gate_entitlements_only(sql_query, user_context, enterprise_context) ==
    IF ~validate_entitlements(sql_query, user_context)
    THEN Some([ status_code |-> 403,
                detail |-> "Unauthorized access to the requested fields" ])
    ELSE None

\* access_gate without the entitlement test
access_gate_tokens_only(sql_query, user_context, enterprise_context) ==
    IF ~validate_saas_tokens(enterprise_context)
    THEN Some([ status_code |-> 401,
                detail |-> "Invalid or expired SaaS application tokens" ])
    ELSE None

\* The two gates of execute_query, in order: the exception the first failing one
\* raises (its status code and detail), or None when both pass.
access_gate(sql_query, user_context, enterprise_context) ==
    IF ~validate_entitlements(sql_query, user_context)
    THEN Some([ status_code |-> 403,
                detail |-> "Unauthorized access to the requested fields" ])
    ELSE IF ~validate_saas_tokens(enterprise_context)
    THEN Some([ status_code |-> 401,
                detail |-> "Invalid or expired SaaS application tokens" ])
    ELSE None

\* request.execution_prefs.get("real_time", True)
wants_real_time(execution_prefs) == dict_get_default(execution_prefs, "real_time", TRUE)

\* except Exception as e: return {"status": "failed", ...}  for an HTTPException
FailedHTTP(e) == Failed(str_HTTPException(e.status_code, e.detail))

\* access_gate and is_query_eligible_for_realtime on the inputs of the model
GateOf ==
    [q \in Queries, uc \in UserContexts, ec \in EnterpriseContexts |->
        access_gate(Text[q], uc, ec)]
EligibleOf == [q \in Queries |-> is_query_eligible_for_realtime(Text[q])]

\* the free slot a new request takes
FreeSlot(r) ==
    /\ req[r].pc = "idle"
    /\ \A s \in Reqs : s < r => req[s].pc # "idle"

\* execute_query from its call to its first await or to its return: the two
\* gates, the real_time preference, the admission test, then either the call of
\* handle_real_time_query up to  await redis.get  or the whole scheduled path.
execute_query(r) ==
    /\ FreeSlot(r)
    /\ submitted < MaxReq
    /\ submitted' = submitted + 1
    /\ \E q \in Queries, uc \in UserContexts, ec \in EnterpriseContexts,
          prefs \in ExecutionPrefs :
         LET rec == [ IdleReq EXCEPT !.sql_query = q, !.user_context = uc,
                                     !.enterprise_context = ec,
                                     !.execution_prefs = prefs ]
             denied == GateOf[q, uc, ec]
         IN
         IF denied # None
         THEN /\ returned' = Some(
                     Finish(rec, FailedHTTP(denied[1]),
                            IF denied[1].status_code = 403
                            THEN <<"entitlements">>
                            ELSE <<"entitlements", "tokens">>))
              /\ UNCHANGED <<req, cache, task_queue, uuids>>
         ELSE IF wants_real_time(prefs)
         THEN IF ~EligibleOf[q]
              THEN /\ returned' = Some(
                          Finish(rec,
                                 FailedHTTP([ status_code |-> 400, detail |->
                                     "Query does not meet real-time execution requirements" ]),
                                 <<"entitlements", "tokens", "eligibility">>))
                   /\ UNCHANGED <<req, cache, task_queue, uuids>>
              ELSE /\ req' = [req EXCEPT ![r] =
                          [ rec EXCEPT !.pc = "await_get",
                                       !.stages = <<"entitlements", "tokens",
                                                    "eligibility", "cache_get">> ]]
                   /\ returned' = None
                   /\ UNCHANGED <<cache, task_queue, uuids>>
         ELSE \E job_id \in Uuids \ uuids :
                   /\ uuids' = uuids \cup {job_id}
                   /\ task_queue' = enqueue_query_task(task_queue, job_id, q, uc, ec)
                   /\ returned' = Some(
                          Finish(rec, SuccessJob(handle_scheduled_query(job_id)),
                                 <<"entitlements", "tokens", "enqueue">>))
                   /\ UNCHANGED <<req, cache>>
    /\ status_call' = None
    /\ UNCHANGED http_exception_str
    /\ UNCHANGED <<cache_unit_vars, unit_calls>>

\* The Redis server serves the GET of cache_query(sql_query).
RedisGet(r) ==
    /\ req[r].pc = "await_get"
    /\ req' = [req EXCEPT ![r].pc = "get_replied",
                          ![r].reply = cache[KeyOf[req[r].sql_query]]]
    /\ returned' = None
    /\ status_call' = None
    /\ UNCHANGED <<cache, task_queue, uuids, submitted>>
    /\ UNCHANGED http_exception_str
    /\ UNCHANGED <<cache_unit_vars, unit_calls>>

\* cache_query(query) after  await redis.get(key):  json.loads of the text, or None
cache_query_get(reply) == IF reply # None THEN Some(json_loads(reply[1])) ELSE None

\* the test  if cached_result:  of handle_real_time_query
cached_result_truthy(cached_result) ==
    cached_result # None /\ list_truthy(cached_result[1])

\* execute_query returns: the slot is free again
Return(r, rec) ==
    /\ req' = [req EXCEPT ![r] = IdleReq]
    /\ returned' = Some(rec)

\* handle_real_time_query resumes after the GET: it returns the cached rows, or
\* executes the query and calls cache_query(sql_query, rows) up to  await redis.set
ResumeAfterGet(r) ==
    /\ req[r].pc = "get_replied"
    /\ LET cached_result == cache_query_get(req[r].reply) IN
       IF cached_result_truthy(cached_result)
       THEN Return(r, Finish(req[r], SuccessRows(cached_result[1]), <<>>))
       ELSE \/ \E e \in DbErrors :
                 Return(r, Finish(req[r],
                                  Failed(str_Exception(<<"Error executing query: ", e>>)),
                                  <<"execute">>))
            \/ \E rows \in RowLists :
                 IF ~json_serializable(rows)
                 THEN Return(r, Finish([req[r] EXCEPT !.rows = rows],
                                       Failed(str_TypeError_json),
                                       <<"execute", "cache_put">>))
                 ELSE /\ req' = [req EXCEPT ![r] =
                             [ req[r] EXCEPT !.pc = "await_set", !.rows = rows,
                                             !.stages = @ \o <<"execute", "cache_put">> ]]
                      /\ returned' = None
    /\ status_call' = None
    /\ UNCHANGED <<cache, task_queue, uuids, submitted>>
    /\ UNCHANGED http_exception_str
    /\ UNCHANGED <<cache_unit_vars, unit_calls>>

\* The Redis server serves the SET of cache_query(sql_query, rows).
RedisSet(r) ==
    /\ req[r].pc = "await_set"
    /\ cache' = [cache EXCEPT ![KeyOf[req[r].sql_query]] = Some(json_dumps(req[r].rows))]
    /\ req' = [req EXCEPT ![r].pc = "set_replied"]
    /\ returned' = None
    /\ status_call' = None
    /\ UNCHANGED <<task_queue, uuids, submitted>>
    /\ UNCHANGED http_exception_str
    /\ UNCHANGED <<cache_unit_vars, unit_calls>>

\* handle_real_time_query resumes after the SET and returns the rows.
ResumeAfterSet(r) ==
    /\ req[r].pc = "set_replied"
    /\ Return(r, Finish(req[r], SuccessRows(req[r].rows), <<>>))
    /\ status_call' = None
    /\ UNCHANGED <<cache, task_queue, uuids, submitted>>
    /\ UNCHANGED http_exception_str
    /\ UNCHANGED <<cache_unit_vars, unit_calls>>

\* The five minutes of  ex=60*5  have passed since the entry was set.
Expire(k) ==
    /\ cache[k] # None
    /\ cache' = [cache EXCEPT ![k] = None]
    /\ returned' = None
    /\ status_call' = None
    /\ UNCHANGED <<req, task_queue, uuids, submitted>>
    /\ UNCHANGED http_exception_str
    /\ UNCHANGED <<cache_unit_vars, unit_calls>>

\* A call of get_task_status(job_id).
GetTaskStatus(job_id) ==
    /\ status_call' = Some([ job_id |-> job_id,
                             result |-> get_task_status(task_queue, job_id) ])
    /\ returned' = None
    /\ UNCHANGED <<req, cache, task_queue, uuids, submitted>>
    /\ UNCHANGED http_exception_str
    /\ UNCHANGED <<cache_unit_vars, unit_calls>>

Next ==
    \/ \E r \in Reqs : execute_query(r)
    \/ \E r \in Reqs : RedisGet(r)
    \/ \E r \in Reqs : ResumeAfterGet(r)
    \/ \E r \in Reqs : RedisSet(r)
    \/ \E r \in Reqs : ResumeAfterSet(r)
    \/ \E k \in Keys : Expire(k)
    \/ \E job_id \in Uuids : GetTaskStatus(job_id)

Spec == Init /\ [][Next]_vars

\* a step of the Redis server or of the event loop for the request of slot r
Progress(r) == RedisGet(r) \/ ResumeAfterGet(r) \/ RedisSet(r) \/ ResumeAfterSet(r)

\* Every collaborator call returns or raises: while a command is pending or a
\* coroutine is ready, the Redis server or the event loop takes a step.
\* Nothing obliges a client to submit a request.
FairSpec == Spec /\ WF_vars(\E r \in Reqs : Progress(r))

(***************************** properties ***********************************)
\* the request that returned in the last step, and its response
HasReturned == returned # None
Ret == returned[1]
RetResponse == returned[1].response[1]

DidStage(rec, stage) == \E i \in 1..Len(rec.stages) : rec.stages[i] = stage
StageCount(rec, stage) == Cardinality({i \in 1..Len(rec.stages) : rec.stages[i] = stage})

\* the inputs of a request
GatesPassOf ==
    [q \in Queries, uc \in UserContexts, ec \in EnterpriseContexts |->
        /\ validate_entitlements(Text[q], uc)
        /\ validate_saas_tokens(ec)]
GatesPass(rec) == GatesPassOf[rec.sql_query, rec.user_context, rec.enterprise_context]

\* the request touched neither the cache, nor the executor, nor the task queue
NoSideEffectStages(rec) ==
    \A st \in {"cache_get", "execute", "cache_put", "enqueue"} : ~DidStage(rec, st)

\* C1: a request that fails the entitlement check or the SaaS-token check returns
\* in the step that submits it (it is never suspended), with status 'failed';
\* that step leaves the cache and the task queue as they were, and the request
\* never reads or writes the cache, never invokes the executor and never
\* enqueues a job.
C1_DeniedHasNoEffect ==
    [][(returned' # None /\ ~GatesPass(returned'[1]))
       => /\ returned'[1].response[1].status = "failed"
          /\ returned'[1].response[1].data = <<>>
          /\ returned'[1].response[1].job = None
          /\ NoSideEffectStages(returned'[1])
          /\ submitted' = submitted + 1
          /\ req' = req
          /\ cache' = cache
          /\ task_queue' = task_queue
          /\ uuids' = uuids]_vars

\* a denied request has returned while the cache or the task queue was not empty
C1_Witness ==
    /\ HasReturned
    /\ ~GatesPass(Ret)
    /\ \/ \E k \in Keys : cache[k] # None
       \/ task_queue # <<>>

\* the request asks for real-time execution with {real_time: true} and its query
\* contains JOIN
ContainsJoin == [q \in Queries |-> Contains(s_join, lower(Text[q]))]
IsRealTimeJoin(rec) ==
    /\ rec.execution_prefs = ("real_time" :> TRUE)
    /\ ContainsJoin[rec.sql_query]

\* the job the response of a scheduled request carries is in the task queue once,
\* in state queued, and get_task_status finds it
JobOfResponseIsQueued(resp, queue) ==
    /\ resp.status = "success"
    /\ resp.job # None
    /\ resp.job[1].status = "queued"
    /\ Cardinality({i \in 1..Len(queue) : queue[i].job_id = resp.job[1].job_id}) = 1
    /\ get_task_status(queue, resp.job[1].job_id) # JobNotFound
    /\ get_task_status(queue, resp.job[1].job_id).status = "queued"

\* C2 as stated: a request that passes both gates with {real_time: true} and a
\* JOIN query ends with status 'success', one job in the ledger, and
\* get_task_status on its identifier gives the job in state queued.
C2_JoinIsScheduled ==
    (HasReturned /\ GatesPass(Ret) /\ IsRealTimeJoin(Ret))
    => JobOfResponseIsQueued(RetResponse, task_queue)

\* C2 (amended): a request that passes both gates with {real_time: true} and a
\* JOIN query is rejected in the step that submits it: status 'failed', no job
\* in the response, the task queue and the cache unchanged, no identifier drawn.
C2_JoinIsRejected ==
    [][(returned' # None /\ GatesPass(returned'[1]) /\ IsRealTimeJoin(returned'[1]))
       => /\ returned'[1].response[1].status = "failed"
          /\ returned'[1].response[1].job = None
          /\ NoSideEffectStages(returned'[1])
          /\ submitted' = submitted + 1
          /\ req' = req
          /\ task_queue' = task_queue
          /\ uuids' = uuids
          /\ cache' = cache]_vars

\* a {real_time: true} JOIN request that passed both gates has returned
C2_Witness == HasReturned /\ GatesPass(Ret) /\ IsRealTimeJoin(Ret)

\* C3 as stated: a real-time request whose GET found an unexpired entry, stored by
\* an earlier successful execution of the same query, returns the rows of that
\* entry (an empty row list included) and does not invoke the executor.
C3_CacheHitReturnsCachedRows ==
    (HasReturned /\ DidStage(Ret, "cache_get") /\ Ret.reply # None)
    => /\ ~DidStage(Ret, "execute")
       /\ RetResponse = SuccessRows(json_loads(Ret.reply[1]))

\* the record of the request of slot r after a step it takes
After(r) == IF req'[r].pc = "idle" THEN returned'[1] ELSE req'[r]

\* the step in which the request of slot r invokes the executor
Executes(r) == req[r].pc = "get_replied" /\ req'[r] # req[r] /\ DidStage(After(r), "execute")

\* C4 as stated: a request that found the cache empty for its key does not invoke
\* the executor once another request has filled that key (the executor runs at
\* most once per key while the entry is unexpired).
C4_AtMostOnceExecution ==
    [][\A r \in Reqs :
          (Executes(r) /\ req[r].reply = None)
          => cache[KeyOf[req[r].sql_query]] = None]_vars

QueryTypes == {"projection", "join", "aggregation", "insert", "unknown"}
MaxSlo == 10
Slos == 0..MaxSlo

\* the decision of C5 on the signals of a query
MeetsAdmissionPredicates(indexed, query_type, slo) ==
    /\ indexed
    /\ query_type \notin {"join", "aggregation", "insert"}
    /\ slo <= 5

\* the signals of every query text
SignalsOf ==
    [q \in AllQueries |->
        [ indexed |-> check_indexed_filters(Text[q]),
          query_type |-> identify_query_type(Text[q]),
          slo |-> get_db_query_slo(Text[q]) ]]

MeetsOf ==
    [q \in AllQueries |->
        MeetsAdmissionPredicates(SignalsOf[q].indexed, SignalsOf[q].query_type,
                                 SignalsOf[q].slo)]

\* the admission test on every combination of signals, a cost of exactly 5 included
AdmitOnAllSignals ==
    /\ \A indexed \in BOOLEAN, query_type \in QueryTypes, slo \in Slos :
          /\ admit(indexed, query_type, slo)
                <=> MeetsAdmissionPredicates(indexed, query_type, slo)
          /\ ~indexed => ~admit(indexed, query_type, slo)
          /\ query_type \in {"join", "aggregation", "insert"}
                => ~admit(indexed, query_type, slo)
    /\ admit(TRUE, "projection", 5)
    /\ admit(TRUE, "unknown", 5)

\* the admission test on every query text
AdmitOnAllQueries ==
    \A q \in AllQueries : is_query_eligible_for_realtime(Text[q]) <=> MeetsOf[q]

\* C5: the admission test admits exactly the signals with an indexed filter, a
\* kind other than join, aggregation and insert, and a cost of at most 5 (5 is
\* admitted); and every request that reached the test went on to the real-time
\* path exactly when the signals of its query meet these predicates.
C5_AdmissionDecision ==
    /\ AdmitOnAllSignals
    /\ AdmitOnAllQueries
    /\ \A r \in Reqs :
          DidStage(req[r], "eligibility")
          => (DidStage(req[r], "cache_get") <=> MeetsOf[req[r].sql_query])
    /\ (HasReturned /\ DidStage(Ret, "eligibility"))
          => (DidStage(Ret, "cache_get") <=> MeetsOf[Ret.sql_query])

\* a request was refused by the admission test while an admitted one is in flight
C5_Witness ==
    /\ HasReturned
    /\ DidStage(Ret, "eligibility") /\ ~DidStage(Ret, "cache_get")
    /\ \E r \in Reqs : DidStage(req[r], "eligibility") /\ DidStage(req[r], "cache_get")

\* the slots whose request returns, and those a request enters, in a step
Leaving == {r \in Reqs : req[r].pc # "idle" /\ req'[r].pc = "idle"}
Entering == {r \in Reqs : req[r].pc = "idle" /\ req'[r].pc # "idle"}

\* the request a step submits: it has returned, or it is in flight in a slot
SubmittedRequest ==
    IF returned' # None THEN returned'[1] ELSE req'[CHOOSE r \in Reqs : r \in Entering]

TaskOf(rec, job_id) ==
    [ job_id |-> job_id, sql_query |-> rec.sql_query, user_context |-> rec.user_context,
      enterprise_context |-> rec.enterprise_context, status |-> "queued" ]

JobIds(queue) == {queue[i].job_id : i \in 1..Len(queue)}
HasJob(rec) == rec.response[1].job # None
ReturnedJobId(rec) == rec.response[1].job[1].job_id

\* C7: no two tasks of the task queue have the same job_id; the identifier a
\* request is given was given to no request before (every identifier given stays
\* in the queue, and the one given now was not in it).
C7_JobIdsUnique ==
    /\ [](\A i, j \in 1..Len(task_queue) :
             i # j => task_queue[i].job_id # task_queue[j].job_id)
    /\ [][/\ JobIds(task_queue) \subseteq JobIds(task_queue')
          /\ (returned' # None /\ HasJob(returned'[1]))
                => /\ ReturnedJobId(returned'[1]) \notin JobIds(task_queue)
                   /\ ReturnedJobId(returned'[1]) \in JobIds(task_queue')]_vars

\* a second request has been given an identifier
C7_Witness ==
    /\ Len(task_queue) >= 2
    /\ HasReturned /\ HasJob(Ret)
    /\ ReturnedJobId(Ret) = task_queue[Len(task_queue)].job_id

\* C8: a call of get_task_status changes neither the task queue nor anything
\* else; for an identifier of no task it gives the not-found dict, which is no
\* task; for the identifier of a task it gives that task: same identifier, query
\* and contexts, state 'queued'.
C8_StatusLookup ==
    [][status_call' # None
       => LET call == status_call'[1] IN
          /\ task_queue' = task_queue
          /\ uuids' = uuids
          /\ req' = req
          /\ cache' = cache
          /\ call.job_id \notin JobIds(task_queue)
                => /\ call.result = JobNotFound
                   /\ \A i \in 1..Len(task_queue) : call.result # task_queue[i]
          /\ \A i \in 1..Len(task_queue) :
                task_queue[i].job_id = call.job_id
                => /\ call.result = task_queue[i]
                   /\ call.result.status = "queued"]_vars

\* get_task_status was called with an identifier of no task while the task queue
\* was not empty
C8_Witness ==
    /\ status_call # None
    /\ task_queue # <<>>
    /\ \A i \in 1..Len(task_queue) : task_queue[i].job_id # status_call[1].job_id

\* get_task_status was called with the identifier of the second of two tasks
C8_WitnessKnown ==
    /\ status_call # None
    /\ Len(task_queue) = 2
    /\ task_queue[2].job_id = status_call[1].job_id

\* the terminal outcomes of a completed request, read from its response and stages
Outcomes(rec) ==
    LET resp == rec.response[1]
        last == rec.stages[Len(rec.stages)]
    IN  { o \in {"gate-denied", "cache-hit", "executed", "enqueued", "failed"} :
            \/ o = "gate-denied" /\ resp.status = "failed"
                                 /\ last \in {"entitlements", "tokens"}
            \/ o = "cache-hit"   /\ resp.status = "success" /\ last = "cache_get"
            \/ o = "executed"    /\ resp.status = "success" /\ DidStage(rec, "execute")
            \/ o = "enqueued"    /\ resp.status = "success" /\ DidStage(rec, "enqueue")
            \/ o = "failed"      /\ resp.status = "failed"
                                 /\ last \notin {"entitlements", "tokens"} }

AllStages == {"entitlements", "tokens", "eligibility", "cache_get", "execute",
              "cache_put", "enqueue"}

\* the inputs of two request records are the same
SameRequest(a, b) ==
    /\ a.sql_query = b.sql_query
    /\ a.user_context = b.user_context
    /\ a.enterprise_context = b.enterprise_context
    /\ a.execution_prefs = b.execution_prefs

C10_ExecutorOutcome ==
    (HasReturned /\ DidStage(Ret, "execute"))
    => IF DidStage(Ret, "cache_put")
       THEN RetResponse = SuccessRows(Ret.rows)
       ELSE /\ \E e \in DbErrors :
                  RetResponse = Failed(<<<<"Error executing query: ", e>>>>)
            /\ StageCount(Ret, "execute") = 1
            /\ ~DidStage(Ret, "enqueue")

(***************************** denial reasons *******************************)
\* which of the two checks a request fails
EntitlementsOkOf ==
    [q \in Queries, uc \in UserContexts |-> validate_entitlements(Text[q], uc)]
TokensOkOf == [ec \in EnterpriseContexts |-> validate_saas_tokens(ec)]
FailsEntitlements(rec) == ~EntitlementsOkOf[rec.sql_query, rec.user_context]
FailsTokens(rec) == ~TokensOkOf[rec.enterprise_context]
FailsOnlyEntitlements(rec) == FailsEntitlements(rec) /\ ~FailsTokens(rec)
FailsOnlyTokens(rec) == ~FailsEntitlements(rec) /\ FailsTokens(rec)
FailsBoth(rec) == FailsEntitlements(rec) /\ FailsTokens(rec)

\* the error reason of the response of a request that has returned
ReasonOf(rec) == rec.response[1].error

\* C11 as stated: of two requests that return one after the other with a denial,
\* one failing only the entitlement check and one failing only the SaaS-token
\* check get failed responses with different error reasons, and one failing both
\* checks gets the reason of the entitlement denial, not that of the token denial.
C11_DenialReasonsDistinct ==
    [][(returned # None /\ returned' # None)
       => LET a == returned[1]
              b == returned'[1]
          IN  /\ ((FailsOnlyEntitlements(a) /\ FailsOnlyTokens(b))
                    \/ (FailsOnlyTokens(a) /\ FailsOnlyEntitlements(b)))
                 => /\ a.response[1].status = "failed"
                    /\ b.response[1].status = "failed"
                    /\ ReasonOf(a) # ReasonOf(b)
              /\ ((FailsBoth(a) /\ FailsOnlyEntitlements(b))
                    \/ (FailsOnlyEntitlements(a) /\ FailsBoth(b)))
                 => ReasonOf(a) = ReasonOf(b)
              /\ ((FailsBoth(a) /\ FailsOnlyTokens(b))
                    \/ (FailsOnlyTokens(a) /\ FailsBoth(b)))
                 => ReasonOf(a) # ReasonOf(b)]_vars

(***************************** real-time ineligible *************************)
\* the error reason of a response holds this text
ReasonSays(resp, txt) ==
    /\ resp.error # None
    /\ \E i \in 1..Len(resp.error[1]) : resp.error[1][i] = txt

\* the request forces real-time execution and its query fails the admission policy
IsForcedIneligible(rec) ==
    /\ GatesPass(rec)
    /\ rec.execution_prefs = ("real_time" :> TRUE)
    /\ ~MeetsOf[rec.sql_query]

\* C12 as stated: a request that passes both gates, forces real-time execution
\* and fails the admission policy returns status 'failed' with a reason saying
\* that the query does not meet the real-time requirements; it invokes no
\* executor, touches no cache entry and enqueues no job.
C12_RealtimeIneligible ==
    [][(returned' # None /\ IsForcedIneligible(returned'[1]))
       => /\ returned'[1].response[1].status = "failed"
          /\ ReasonSays(returned'[1].response[1],
                        "Query does not meet real-time execution requirements")
          /\ NoSideEffectStages(returned'[1])
          /\ cache' = cache
          /\ task_queue' = task_queue]_vars

(***************************** cache_query on its own ***********************)
\* cache_query called directly, against a Redis server that keeps time: a SET
\* with  ex  seconds stores the entry with its time to live, a GET gives the
\* value of an entry whose time to live has not elapsed, else nothing.

\* seconds between two observations of the clock, and the last time observed
TickSeconds == 100
MaxTime == 600

\* the query texts cache_query is called with
CacheQueries == {"QSel", "QSelU", "QColl"}

\* a time to live of ten minutes
CACHE_TTL_ten_minutes == 60 * 10

\* ex=60*5
CACHE_TTL == 60 * 5

\* redis.set(key, value, ex=ex) at time t
redis_set(store, key, value, ex, t) ==
    [store EXCEPT ![key] = Some([ value |-> value, ex |-> ex, stored_at |-> t ])]

\* redis.get(key) at time t
redis_get(store, key, t) ==
    IF store[key] # None /\ t < store[key][1].stored_at + store[key][1].ex
    THEN Some(store[key][1].value)
    ELSE None

\* cache_query(query, result) with result a row list: it stores the rows and
\* returns them, or json.dumps raises TypeError and nothing is stored
CachePut(q, rows) ==
    /\ IF json_serializable(rows)
       THEN /\ redis_store' = redis_set(redis_store, KeyOf[q], json_dumps(rows),
                                        CACHE_TTL, now)
            /\ cache_call' = Some([ op |-> "put", query |-> q, key |-> KeyOf[q], arg |-> rows,
                                    result |-> Some(rows), raised |-> FALSE ])
       ELSE /\ redis_store' = redis_store
            /\ cache_call' = Some([ op |-> "put", query |-> q, key |-> KeyOf[q], arg |-> rows,
                                    result |-> None, raised |-> TRUE ])
    /\ UNCHANGED now
    /\ UNCHANGED <<service_vars, unit_calls>>

\* cache_query(query): the rows stored under the key of the query, or None
CacheGet(q) ==
    /\ cache_call' = Some([ op |-> "get", query |-> q, key |-> KeyOf[q], arg |-> <<>>,
                            result |-> cache_query_get(
                                           redis_get(redis_store, KeyOf[q], now)),
                            raised |-> FALSE ])
    /\ UNCHANGED <<redis_store, now>>
    /\ UNCHANGED <<service_vars, unit_calls>>

\* time passes
Tick ==
    /\ now + TickSeconds <= MaxTime
    /\ now' = now + TickSeconds
    /\ cache_call' = None
    /\ UNCHANGED redis_store
    /\ UNCHANGED <<service_vars, unit_calls>>

CacheNext ==
    \/ \E q \in CacheQueries, rows \in RowLists : CachePut(q, rows)
    \/ \E q \in CacheQueries : CacheGet(q)
    \/ Tick

CacheSpec == Init /\ [][CacheNext]_vars

\* five minutes, in seconds
FIVE_MINUTES == 300

\* the call of cache_query a step makes
IsPut(call) == call # None /\ call[1].op = "put" /\ ~call[1].raised
IsGet(call) == call # None /\ call[1].op = "get"

C13_WitnessEmptyRows ==
    /\ IsGet(cache_call)
    /\ cache_call[1].result = Some(<<>>)

(***************************** the checks on their own ***********************)
\* validate_saas_tokens and the signal extraction called directly, on more
\* inputs than the requests of a run carry.

\* number of calls of a run
MaxCalls == 2

\* the integrations validate_saas_tokens requires
Integrations == {"Salesforce", "Zendesk"}

\* the token an integration can have in a context: none (the key is absent),
\* the empty string, a token the integration accepts, a token that has expired
TokensOf ==
    [ Salesforce |-> {"", "tok_sf", "tok_sf_expired"},
      Zendesk |-> {"", "tok_zd", "tok_zd_expired"} ]

\* the dicts  enterprise_context["Access_tokens"]  can be
TokenDicts ==
    UNION { { d \in [S -> TokensOf["Salesforce"] \cup TokensOf["Zendesk"]] :
                \A app \in S : d[app] \in TokensOf[app] } : S \in SUBSET Integrations }

\* the enterprise contexts: without Access_tokens, or with one of the dicts
TokenContexts == {EmptyDict} \cup { "Access_tokens" :> d : d \in TokenDicts }

\* a call of validate_saas_tokens(enterprise_context)
ValidateSaasTokens(ec) ==
    /\ Len(unit_calls) < MaxCalls
    /\ unit_calls' = Append(unit_calls,
                            [ fn |-> "validate_saas_tokens", enterprise_context |-> ec,
                              result |-> validate_saas_tokens(ec) ])
    /\ UNCHANGED <<service_vars, cache_unit_vars>>

\* the signals of every query text, as is_query_eligible_for_realtime derives them
ExtractOf ==
    [q \in AllQueries |->
        [ query_type |-> identify_query_type(Text[q]),
          indexed |-> check_indexed_filters(Text[q]),
          slo |-> get_db_query_slo(Text[q]),
          eligible |-> is_query_eligible_for_realtime(Text[q]) ]]

\* a call of is_query_eligible_for_realtime(sql_query), with the signals it derives
ExtractSignals(q) ==
    /\ Len(unit_calls) < MaxCalls
    /\ unit_calls' = Append(unit_calls,
                            [ fn |-> "is_query_eligible_for_realtime", sql_query |-> q,
                              signals |-> ExtractOf[q] ])
    /\ UNCHANGED <<service_vars, cache_unit_vars>>

UnitNext ==
    \/ \E ec \in TokenContexts : ValidateSaasTokens(ec)
    \/ \E q \in AllQueries : ExtractSignals(q)

UnitSpec == Init /\ [][UnitNext]_vars

\* the tokens the integrations hold as active
ActiveTokens == [ Salesforce |-> {"tok_sf"}, Zendesk |-> {"tok_zd"} ]

\* the context has an active token for the integration
HasActiveToken(ec, app) ==
    /\ "Access_tokens" \in DOMAIN ec
    /\ app \in DOMAIN ec["Access_tokens"]
    /\ ec["Access_tokens"][app] \in ActiveTokens[app]

\* the calls of validate_saas_tokens made so far
TokenCalls ==
    { i \in 1..Len(unit_calls) : unit_calls[i].fn = "validate_saas_tokens" }

\* C14 as stated: validate_saas_tokens admits an enterprise context exactly when
\* Salesforce and Zendesk both have an active token; a missing or inactive token
\* of either one denies, whatever the token of the other.
C14_TokensAndSemantics ==
    \A i \in TokenCalls :
        unit_calls[i].result
            <=> \A app \in Integrations :
                    HasActiveToken(unit_calls[i].enterprise_context, app)

\* the calls of is_query_eligible_for_realtime made so far
SignalCalls ==
    { i \in 1..Len(unit_calls) : unit_calls[i].fn = "is_query_eligible_for_realtime" }

\* C15 as stated: every query whose kind identify_query_type gives as 'unknown'
\* has the signals usesIndexedFilter = false and an estimated cost above the
\* real-time threshold, and is not eligible for real-time execution.
C15_UnknownIsConservative ==
    \A i \in SignalCalls :
        unit_calls[i].signals.query_type = "unknown"
        => /\ ~unit_calls[i].signals.indexed
           /\ unit_calls[i].signals.slo > SLO_THRESHOLD
           /\ ~unit_calls[i].signals.eligible

(***************************** job ledger ***********************************)
\* C16: no step removes or changes a task of the task queue: after every step
\* each task is at its place with the identifier, query, contexts and state it
\* was created with; a step adds at most one task, at the end, and only the
\* step in which a request is given that task's identifier; every task is in
\* state 'queued'.
C16_LedgerAppendOnly ==
    /\ [](\A i \in 1..Len(task_queue) : task_queue[i].status = "queued")
    /\ [][/\ Len(task_queue') >= Len(task_queue)
          /\ Len(task_queue') <= Len(task_queue) + 1
          /\ \A i \in 1..Len(task_queue) : task_queue'[i] = task_queue[i]
          /\ Len(task_queue') = Len(task_queue) + 1
             => /\ returned' # None
                /\ HasJob(returned'[1])
                /\ task_queue'[Len(task_queue')] =
                      TaskOf(returned'[1], ReturnedJobId(returned'[1]))]_vars

\* get_task_status was called with the identifier of the first of two tasks
C16_Witness ==
    /\ Len(task_queue) = 2
    /\ status_call # None
    /\ status_call[1].job_id = task_queue[1].job_id

(***************************** cache keys of different queries ***************)
\* a text without its spaces, in lower case: two texts that differ only in case
\* or whitespace have the same normal form
Normalize(s) == lower(SelectSeq(s, LAMBDA c : c # " "))
NormalOf == [q \in AllQueries |-> Normalize(Text[q])]

\* C17 as stated: two calls of cache_query, one after the other, for query texts
\* that differ after normalization use different keys, and a get never returns
\* the rows a put has just stored for a text with another normal form.
C17_KeysDoNotCollide ==
    [][(cache_call # None /\ cache_call' # None
          /\ NormalOf[cache_call[1].query] # NormalOf[cache_call'[1].query])
       => /\ cache_call[1].key # cache_call'[1].key
          /\ (IsPut(cache_call) /\ IsGet(cache_call'))
             => cache_call'[1].result # Some(cache_call[1].arg)]_vars

(***************************** the cache and the access gate *****************)
\* the query refers to the restricted label and the requester has no Admin role
RestrictedOf ==
    [q \in Queries, uc \in UserContexts |->
        /\ Contains(s_highly_confidential, lower(Text[q]))
        /\ "Admin" \notin uc["roles"]]

\* C18: a request without the Admin role for a query that refers to the
\* restricted label returns status 'failed' with no rows, whatever the cache
\* holds, and never reads the cache nor runs the executor; only requests that
\* passed both gates are in flight on the real-time path, and only such
\* requests return rows.
C18_CacheCannotBypassGate ==
    /\ \A r \in Reqs :
          req[r].pc # "idle"
          => /\ ~RestrictedOf[req[r].sql_query, req[r].user_context]
             /\ GatesPass(req[r])
    /\ HasReturned
       => /\ RestrictedOf[Ret.sql_query, Ret.user_context]
             => /\ RetResponse.status = "failed"
                /\ RetResponse.data = <<>>
                /\ RetResponse.job = None
                /\ ~DidStage(Ret, "cache_get")
                /\ ~DidStage(Ret, "execute")
          /\ RetResponse.data # <<>> => GatesPass(Ret)

\* a requester without the Admin role was refused the restricted query while the
\* cache held the rows an Admin requester's execution of that query had stored
C18_Witness ==
    /\ HasReturned
    /\ RestrictedOf[Ret.sql_query, Ret.user_context]
    /\ Ret.enterprise_context \in EnterpriseContexts
    /\ validate_saas_tokens(Ret.enterprise_context)
    /\ cache[KeyOf[Ret.sql_query]] # None
    /\ json_loads(cache[KeyOf[Ret.sql_query]][1]) # <<>>

(***************************** cache provenance ******************************)
\* the request of slot r is on the real-time path with the rows of a successful
\* execution of its query, waiting for its redis.set
IsStoring(r) ==
    /\ req[r].pc = "await_set"
    /\ GatesPass(req[r])
    /\ MeetsOf[req[r].sql_query]
    /\ DidStage(req[r], "execute")

\* C19: a step changes the cache only by expiring an entry or by storing, under
\* the key of its query, the rows of a request that passed both gates, was
\* eligible for real-time execution and executed its query successfully; the
\* stored value decodes to those rows; the step in which a request returns
\* (denied, scheduled, refused as ineligible, served from the cache, failed, or
\* executed) writes nothing.
C19_CacheProvenance ==
    [][/\ cache' # cache
          => \/ \E k \in Keys :
                   /\ cache[k] # None
                   /\ cache' = [cache EXCEPT ![k] = None]
             \/ \E r \in Reqs :
                   /\ IsStoring(r)
                   /\ req'[r].pc = "set_replied"
                   /\ cache'[KeyOf[req[r].sql_query]] # None
                   /\ json_loads(cache'[KeyOf[req[r].sql_query]][1]) = req[r].rows
                   /\ \A k \in Keys \ {KeyOf[req[r].sql_query]} : cache'[k] = cache[k]
       /\ returned' # None => cache' = cache
       /\ \A r \in Reqs :
             (req[r].pc = "await_set" /\ req'[r].pc = "set_replied")
             => /\ cache'[KeyOf[req[r].sql_query]] # None
                /\ json_loads(cache'[KeyOf[req[r].sql_query]][1]) = req[r].rows]_vars

\* a request has just stored the non-empty rows of its execution
C19_Witness ==
    \E r \in Reqs :
        /\ req[r].pc = "set_replied"
        /\ req[r].rows # <<>>
        /\ cache[KeyOf[req[r].sql_query]] # None
        /\ json_loads(cache[KeyOf[req[r].sql_query]][1]) = req[r].rows

====
